---- MODULE Spec2Model ----
(***************************************************************************)
(* A model of src/hurting.py: the AnimalDiseaseAI object (parameters,      *)
(* advisory cache with its retrying client, feces-analysis ledger,         *)
(* intervention evaluation and the SIR simulation).                        *)
(*                                                                         *)
(* Numbers.  beta, gamma and migration_rate are held as integers counting  *)
(* thousandths.  analyze_feces is computed in binary64 floats, rounding    *)
(* included (see Float below), because its verdict can turn on the last    *)
(* bit of a sum.  The builtin sum() adds floats plainly on CPython up to   *)
(* 3.11 and with a compensation term from 3.12 on; which one the program   *)
(* runs on is fixed when it starts (compensated_sum) and both are checked. *)
(* evaluate_interventions and generate_simulation are computed in exact    *)
(* fractions (see Rat below), the numbers their floats approximate:        *)
(* rounding is not modelled there.                                         *)
(***************************************************************************)
EXTENDS Integers, Sequences, FiniteSets, TLC

VARIABLES
    params,          \* self.params        (beta, gamma in 1/1000)
    env_factors,     \* self.env_factors   (migration_rate in 1/1000)
    nchanges,        \* history: assignments made to params / env_factors after __init__
    analysis_cache,  \* self.analysis_cache: key string -> advisory text
    pc,              \* position inside ai_analysis: "idle", "post", "sleep"
    query,           \* argument of the running / last ai_analysis call
    cache_key,       \* local cache_key of the running / last call
    retries,         \* local retries of ai_analysis_with_retry
    result,          \* value (or exception) the last ai_analysis call ended with
    nreq,            \* history: remote requests issued by the running / last call
    waits,           \* history: time.sleep durations of the running / last call
    last_outcome,    \* history: outcome of the latest requests.post of this call
    cache_at_call,   \* history: analysis_cache when the running / last call began
    served,          \* history: successful remote responses [call, query, params, env, text]
    ncalls,          \* history: ai_analysis calls begun (bounded by MaxCalls)
    feces_history,   \* self.feces_history: the ledger of analysis records
    analysis,        \* value the last analyze_feces call returned
    feces_input,     \* history: what the collaborators gave the last analyze_feces call
    nfeces,          \* history: analyze_feces calls made
    compensated_sum, \* the interpreter's builtin sum() compensates float rounding
                     \* (CPython >= 3.12) or does not (CPython <= 3.11)
    selected_measures, \* st.session_state.selected_measures
    evaluated,       \* argument of the last evaluate_interventions call
    evaluation,      \* value (or exception) that call ended with
    days,            \* argument of the last generate_simulation call a caller made
    simulation       \* value (or exception) that call ended with

objectVars == <<params, env_factors, nchanges>>

advisoryVars == <<analysis_cache, pc, query, cache_key, retries, result, nreq, waits,
                  last_outcome, cache_at_call, served, ncalls>>

fecesVars == <<feces_history, analysis, feces_input, nfeces, compensated_sum>>

evalVars == <<selected_measures, evaluated, evaluation>>

simVars == <<days, simulation>>

vars == <<objectVars, advisoryVars, fecesVars, evalVars, simVars>>

\* what the operations of one part of the object leave alone
exceptAdvisory == <<fecesVars, evalVars, simVars>>
exceptFeces == <<objectVars, advisoryVars, evalVars, simVars>>
exceptEval == <<advisoryVars, fecesVars, simVars>>
exceptSim == <<advisoryVars, fecesVars, evalVars>>

----------------------------------------------------------------------------
(* Bounds of the model *)

MaxCalls == 3

MaxChanges == 2

MaxLedger == 2

MaxFecesCalls == 3

MaxSelected == 3

MaxDays == 3

----------------------------------------------------------------------------
(* Python values *)

None == "<None>"
Running == "<running>"
ValueErrorRaised == "<ValueError>"
ShapeErrorRaised == "<IndexError/TypeError>"

Raised == {ValueErrorRaised, ShapeErrorRaised}

\* bool(result) of "if result:" for the values ai_analysis_with_retry can return
Truthy(r) == r # None /\ r # ""

Pow2(n) == IF n <= 0 THEN 1 ELSE 2 ^ n

----------------------------------------------------------------------------
(* repr() of the numbers held in params / env_factors *)

\* the k decimal digits of f (0 <= f < 10^k), leading zeros included
RECURSIVE Digits(_, _)
Digits(f, k) == IF k = 1 THEN ToString(f) ELSE Digits(f \div 10, k - 1) \o ToString(f % 10)

\* the same with trailing zeros dropped, at least one digit kept
RECURSIVE FracDigits(_, _)
FracDigits(f, k) ==
    IF k = 1 THEN ToString(f)
    ELSE IF f % 10 = 0 THEN FracDigits(f \div 10, k - 1)
    ELSE Digits(f, k)

\* repr of the float v / 10^k, v >= 0 (e.g. 300, 3 -> "0.3"; 5, 3 -> "0.005"; 1000, 3 -> "1.0")
ReprFloat(v, k) == ToString(v \div (10 ^ k)) \o "." \o FracDigits(v % (10 ^ k), k)

ReprInt(n) == ToString(n)

\* str(self.params)
StrParams(p) ==
    "{'beta': " \o ReprFloat(p.beta, 3) \o ", 'gamma': " \o ReprFloat(p.gamma, 3)
    \o ", 'population': " \o ReprInt(p.population)
    \o ", 'initial_infected': " \o ReprInt(p.initial_infected) \o "}"

\* str(self.env_factors)
StrEnv(e) ==
    "{'temperature': " \o ReprInt(e.temperature) \o ", 'humidity': " \o ReprInt(e.humidity)
    \o ", 'migration_rate': " \o ReprFloat(e.migration_rate, 3) \o "}"

\* cache_key = f"{query}_{self.params}_{self.env_factors}"
CacheKey(q, p, e) == q \o "_" \o StrParams(p) \o "_" \o StrEnv(e)

----------------------------------------------------------------------------
(* __init__ *)

InitParams == [beta |-> 300, gamma |-> 100, population |-> 1000, initial_infected |-> 1]

InitEnv == [temperature |-> 20, humidity |-> 60, migration_rate |-> 5]

species_params ==
    [poultry |-> [beta |-> 350, gamma |-> 80, incubation |-> 2],
     swine   |-> [beta |-> 250, gamma |-> 120, incubation |-> 4],
     cattle  |-> [beta |-> 150, gamma |-> 150, incubation |-> 7]]

max_retries == 3

----------------------------------------------------------------------------
(* Inputs of the advisory client *)

Queries == {"q1", "q2"}

Texts == {"", "adviceA", "adviceB"}

SpeciesInputs == {"swine", "horse"}

\* values assigned from the sidebar widgets of main (lines 449-457): one value other
\* than the one __init__ gives, and for the temperature also the way back
BetaInputs == {310}

GammaInputs == {110}

PopulationInputs == {500}

InitialInfectedInputs == {5}

TemperatureInputs == {20, 25}

HumidityInputs == {70}

MigrationRateInputs == {6}

\* What one requests.post attempt can end in:
\*   ok                 a 2xx JSON body with choices[0].message.content = text
\*   request_exception  ConnectionError / Timeout / HTTPError of raise_for_status
\*   bad_json_reqexc    body is not JSON; response.json() raises requests' JSONDecodeError,
\*                      a RequestException (requests >= 2.27)
\*   bad_json_valueerr  body is not JSON; response.json() raises a plain ValueError
\*                      (older requests), which no except clause catches
\*   key_error          JSON object lacking "choices" / "message" / "content"
\*   bad_shape          JSON of another shape (empty choices list, a list, null):
\*                      IndexError / TypeError, which no except clause catches
Outcomes ==
    {[kind |-> "ok", text |-> t] : t \in Texts}
    \cup {[kind |-> k, text |-> ""] :
            k \in {"request_exception", "bad_json_reqexc", "bad_json_valueerr",
                   "key_error", "bad_shape"}}

Malformed == {"bad_json_reqexc", "bad_json_valueerr", "key_error", "bad_shape"}

----------------------------------------------------------------------------
(* ai_analysis and ai_analysis_with_retry *)

StoreAlways(cache, key, r) ==
    [k \in DOMAIN cache \cup {key} |-> IF k = key THEN r ELSE cache[k]]

\* a cache of one slot: storing an advisory evicts every other entry
StoreLatestOnly(cache, key, r) ==
    IF Truthy(r) THEN [k \in {key} |-> r] ELSE cache

\* if result: self.analysis_cache[cache_key] = result
StoreResult(cache, key, r) ==
    IF Truthy(r)
    THEN [k \in DOMAIN cache \cup {key} |-> IF k = key THEN r ELSE cache[k]]
    ELSE cache

LoopGuardOffByOne(r) == r <= max_retries

\* while retries < max_retries
LoopGuard(r) == r < max_retries

\* ai_analysis_with_retry returns r; ai_analysis stores it when truthy and returns it
Return(r) ==
    /\ result' = r
    /\ pc' = "idle"
    /\ analysis_cache' = StoreResult(analysis_cache, cache_key, r)

\* an exception leaves ai_analysis_with_retry and ai_analysis: nothing is stored
Raise(x) ==
    /\ result' = x
    /\ pc' = "idle"
    /\ analysis_cache' = analysis_cache

\* ai_analysis(q) up to its first remote request: the cache lookup, and on a miss the
\* entry into the retry loop
AiAnalysis(q) ==
    /\ pc = "idle"
    /\ ncalls < MaxCalls
    /\ ncalls' = ncalls + 1
    /\ query' = q
    /\ cache_key' = CacheKey(q, params, env_factors)
    /\ cache_at_call' = analysis_cache
    /\ nreq' = 0
    /\ waits' = <<>>
    /\ last_outcome' = "none"
    /\ retries' = 0
    /\ IF CacheKey(q, params, env_factors) \in DOMAIN analysis_cache
       THEN /\ result' = analysis_cache[CacheKey(q, params, env_factors)]
            /\ pc' = "idle"
            /\ UNCHANGED analysis_cache
       ELSE IF LoopGuard(0)
       THEN /\ pc' = "post"
            /\ result' = Running
            /\ UNCHANGED analysis_cache
       ELSE /\ result' = None
            /\ pc' = "idle"
            /\ UNCHANGED analysis_cache
    /\ UNCHANGED <<objectVars, served>>
    /\ UNCHANGED exceptAdvisory

\* one pass of the try block: requests.post, raise_for_status, response.json(),
\* result["choices"][0]["message"]["content"], and the except clause it lands in
Post(o) ==
    /\ pc = "post"
    /\ nreq' = nreq + 1
    /\ last_outcome' = o.kind
    /\ CASE o.kind = "ok" ->
              /\ served' = served \cup {[call |-> ncalls, query |-> query,
                                         params |-> params, env |-> env_factors,
                                         text |-> o.text]}
              /\ Return(o.text)
              /\ UNCHANGED retries
         [] o.kind \in {"request_exception", "bad_json_reqexc"} ->
              /\ retries' = retries + 1
              /\ pc' = "sleep"
              /\ UNCHANGED <<result, analysis_cache, served>>
         [] o.kind = "key_error" ->
              /\ Return(None)
              /\ UNCHANGED <<retries, served>>
         [] o.kind = "bad_json_valueerr" ->
              /\ Raise(ValueErrorRaised)
              /\ UNCHANGED <<retries, served>>
         [] o.kind = "bad_shape" ->
              /\ Raise(ShapeErrorRaised)
              /\ UNCHANGED <<retries, served>>
    /\ UNCHANGED <<objectVars, query, cache_key, waits, cache_at_call,
                   ncalls>>
    /\ UNCHANGED exceptAdvisory

\* time.sleep(2 ** retries), then the loop test; when it fails, return None
Sleep ==
    /\ pc = "sleep"
    /\ waits' = Append(waits, Pow2(retries))
    /\ IF LoopGuard(retries)
       THEN /\ pc' = "post"
            /\ UNCHANGED <<result, analysis_cache>>
       ELSE Return(None)
    /\ UNCHANGED <<objectVars, query, cache_key, retries, nreq, last_outcome,
                   cache_at_call, served, ncalls>>
    /\ UNCHANGED exceptAdvisory

\* what an assignment to params / env_factors leaves alone
exceptObject == <<advisoryVars, fecesVars, evalVars, simVars>>

\* an assignment to one entry of self.params or self.env_factors is made between calls
Assigning ==
    /\ pc = "idle"
    /\ nchanges < MaxChanges
    /\ nchanges' = nchanges + 1
    /\ UNCHANGED exceptObject

\* set_species(species)
SetSpecies(s) ==
    /\ Assigning
    /\ IF s \in DOMAIN species_params
       THEN params' = [params EXCEPT !.beta = species_params[s].beta,
                                     !.gamma = species_params[s].gamma]
       ELSE params' = params
    /\ UNCHANGED env_factors

\* model.params['beta'] = st.slider(...)
SetBeta(b) ==
    /\ Assigning
    /\ params' = [params EXCEPT !.beta = b]
    /\ UNCHANGED env_factors

\* model.params['gamma'] = st.slider(...)
SetGamma(g) ==
    /\ Assigning
    /\ params' = [params EXCEPT !.gamma = g]
    /\ UNCHANGED env_factors

\* model.params['population'] = st.number_input(...)
SetPopulation(n) ==
    /\ Assigning
    /\ params' = [params EXCEPT !.population = n]
    /\ UNCHANGED env_factors

\* model.params['initial_infected'] = st.number_input(...)
SetInitialInfected(i) ==
    /\ Assigning
    /\ params' = [params EXCEPT !.initial_infected = i]
    /\ UNCHANGED env_factors

\* model.env_factors['temperature'] = st.slider(...)
SetTemperature(t) ==
    /\ Assigning
    /\ env_factors' = [env_factors EXCEPT !.temperature = t]
    /\ UNCHANGED params

\* model.env_factors['humidity'] = st.slider(...)
SetHumidity(h) ==
    /\ Assigning
    /\ env_factors' = [env_factors EXCEPT !.humidity = h]
    /\ UNCHANGED params

\* model.env_factors['migration_rate'] = st.slider(...)
SetMigrationRate(m) ==
    /\ Assigning
    /\ env_factors' = [env_factors EXCEPT !.migration_rate = m]
    /\ UNCHANGED params

\* __init__: self.params, self.env_factors
ParamsInit ==
    /\ params = InitParams
    /\ env_factors = InitEnv
    /\ nchanges = 0

\* __init__: self.analysis_cache = {}; no call of ai_analysis is running
AdvisoryInit ==
    /\ analysis_cache = << >>
    /\ pc = "idle"
    /\ query = ""
    /\ cache_key = ""
    /\ retries = 0
    /\ result = None
    /\ nreq = 0
    /\ waits = << >>
    /\ last_outcome = "none"
    /\ cache_at_call = << >>
    /\ served = {}
    /\ ncalls = 0

\* one call of ai_analysis, from the lookup to its return
CallNext ==
    \/ \E q \in Queries : AiAnalysis(q)
    \/ \E o \in Outcomes : Post(o)
    \/ Sleep

AdvisoryNext ==
    \/ \E q \in Queries : AiAnalysis(q)
    \/ \E o \in Outcomes : Post(o)
    \/ Sleep
    \/ \E s \in SpeciesInputs : SetSpecies(s)
    \/ \E b \in BetaInputs : SetBeta(b)
    \/ \E g \in GammaInputs : SetGamma(g)
    \/ \E n \in PopulationInputs : SetPopulation(n)
    \/ \E i \in InitialInfectedInputs : SetInitialInfected(i)
    \/ \E t \in TemperatureInputs : SetTemperature(t)
    \/ \E u \in HumidityInputs : SetHumidity(u)
    \/ \E m \in MigrationRateInputs : SetMigrationRate(m)
----------------------------------------------------------------------------
(* Python float: IEEE-754 binary64, round to nearest, ties to even          *)
(*                                                                          *)
(* analyze_feces computes with floats, and its verdict can turn on the last *)
(* bit of a sum, so the score is computed as the interpreter computes it.   *)
(* Every float of analyze_feces is >= 0 (only the compensation term inside  *)
(* sum() can be negative) and far from the subnormal and the overflow      *)
(* range. A natural number is the sequence of its digits in base   *)
(* 2^15, lowest digit first; a float is the record [m, e] of value m * 2^e  *)
(* whose m has exactly 53 bits, or FloatZero. The arithmetic is written as  *)
(* functions, which take their arguments by value.                          *)

Base == 32768

\* natural numbers as digit sequences, and floats
Naturals15 == Seq(0..(Base - 1))
Floats == [m : Naturals15, e : Int]

Limb[a \in Naturals15, i \in Nat] == IF i <= Len(a) THEN a[i] ELSE 0

\* a without leading zero digits
Trim[a \in Naturals15] ==
    IF a = << >> THEN << >>
    ELSE IF a[Len(a)] = 0 THEN Trim[SubSeq(a, 1, Len(a) - 1)] ELSE a

\* the natural number n < 2^31 as digits
Big[n \in Nat] == IF n = 0 THEN << >> ELSE <<n % Base>> \o Big[n \div Base]

AddFrom[a \in Naturals15, b \in Naturals15, i \in Nat, carry \in Nat] ==
    IF i > Len(a) /\ i > Len(b)
    THEN (IF carry = 0 THEN << >> ELSE <<carry>>)
    ELSE LET s == Limb[a, i] + Limb[b, i] + carry
         IN  <<s % Base>> \o AddFrom[a, b, i + 1, s \div Base]

BigAdd[a \in Naturals15, b \in Naturals15] == Trim[AddFrom[a, b, 1, 0]]

SubFrom[a \in Naturals15, b \in Naturals15, i \in Nat, borrow \in Nat] ==
    IF i > Len(a) THEN << >>
    ELSE LET d == Limb[a, i] - Limb[b, i] - borrow
         IN  <<IF d < 0 THEN d + Base ELSE d>>
             \o SubFrom[a, b, i + 1, IF d < 0 THEN 1 ELSE 0]

\* a - b for a >= b
BigSub[a \in Naturals15, b \in Naturals15] == Trim[SubFrom[a, b, 1, 0]]

\* a < b, for a and b without leading zero digits
BigLess[a \in Naturals15, b \in Naturals15] ==
    IF Len(a) # Len(b) THEN Len(a) < Len(b)
    ELSE LET differ == {i \in 1..Len(a) : a[i] # b[i]}
         IN  /\ differ # {}
             /\ \E top \in differ : (\A j \in differ : j <= top) /\ a[top] < b[top]

MulSmallFrom[a \in Naturals15, k \in Nat, i \in Nat, carry \in Nat] ==
    IF i > Len(a)
    THEN (IF carry = 0 THEN << >> ELSE <<carry>>)
    ELSE LET p == a[i] * k + carry
         IN  <<p % Base>> \o MulSmallFrom[a, k, i + 1, p \div Base]

\* a * k for 0 <= k < Base
MulSmall[a \in Naturals15, k \in Nat] == Trim[MulSmallFrom[a, k, 1, 0]]

MulFrom[a \in Naturals15, b \in Naturals15, j \in Nat] ==
    IF j > Len(b) THEN << >>
    ELSE AddFrom[MulSmallFrom[a, b[j], 1, 0], <<0>> \o MulFrom[a, b, j + 1], 1, 0]

\* a * b
BigMul[a \in Naturals15, b \in Naturals15] == Trim[MulFrom[a, b, 1]]

\* a * 2^k
ShiftLeft[a \in Naturals15, k \in Nat] ==
    Trim[[i \in 1..(k \div 15) |-> 0] \o MulSmall[a, 2 ^ (k % 15)]]

\* a \div d for 0 < d < Base, from the highest digit down
DivSmallFrom[a \in Naturals15, d \in Nat, i \in Nat, rem \in Nat] ==
    IF i = 0 THEN << >>
    ELSE LET cur == rem * Base + a[i]
         IN  DivSmallFrom[a, d, i - 1, cur % d] \o <<cur \div d>>

\* a \div 2^k
ShiftRight[a \in Naturals15, k \in Nat] ==
    IF k \div 15 >= Len(a) THEN << >>
    ELSE Trim[DivSmallFrom[SubSeq(a, (k \div 15) + 1, Len(a)), 2 ^ (k % 15),
                           Len(a) - (k \div 15), 0]]

\* the number of bits of a
BitLen[a \in Naturals15] ==
    IF a = << >> THEN 0
    ELSE 15 * (Len(a) - 1)
         + (CHOOSE k \in 1..15 : 2 ^ (k - 1) <= a[Len(a)] /\ a[Len(a)] < 2 ^ k)

\* a quotient with its remainder
Quotients == [q : Naturals15, r : Naturals15]

\* one step of long division in base 2^15: cur < b * Base is divided by b, whose
\* highest digit is at least Base / 2, so the quotient digit is at most 2 below the
\* estimate taken from the two highest digits of cur
DivModDigit[cur \in Naturals15, b \in Naturals15] ==
    LET n == Len(b)
        guess == (Limb[cur, n + 1] * Base + Limb[cur, n]) \div b[n]
        high == IF guess < Base THEN guess ELSE Base - 1
    IN  IF ~BigLess[cur, MulSmall[b, high]] THEN high
        ELSE IF ~BigLess[cur, MulSmall[b, high - 1]] THEN high - 1
        ELSE high - 2

\* the quotient and remainder so far with the quotient digit for cur
DivModWith[q \in Naturals15, cur \in Naturals15, b \in Naturals15, digit \in Nat] ==
    [q |-> Trim[<<digit>> \o q], r |-> BigSub[cur, MulSmall[b, digit]]]

\* from quotient and remainder of the digits above, bring down the next digit
DivModStep[above \in Quotients, digit \in Nat, b \in Naturals15] ==
    DivModWith[above.q, Trim[<<digit>> \o above.r], b,
               DivModDigit[Trim[<<digit>> \o above.r], b]]

\* quotient and remainder of the digits j, j+1, .. of a by b
DivModFrom[a \in Naturals15, b \in Naturals15, j \in Nat] ==
    IF j > Len(a) THEN [q |-> << >>, r |-> << >>]
    ELSE DivModStep[DivModFrom[a, b, j + 1], a[j], b]

\* a \div b and a % b for b whose highest digit is at least Base / 2
BigDivMod[a \in Naturals15, b \in Naturals15] == DivModFrom[a, b, 1]

\* the shift that brings the highest digit of b to at least Base / 2
Normalizing[b \in Naturals15] == 15 * Len(b) - BitLen[b]

FloatZero == [m |-> << >>, e |-> 0]

\* m * 2^e for m of more than 53 bits, q being m without its low bits
RoundedUp[m \in Naturals15, e \in Int, shift \in Nat, q \in Naturals15] ==
    LET rem == BigSub[m, ShiftLeft[q, shift]]
        half == ShiftLeft[<<1>>, shift - 1]
        up == BigLess[half, rem] \/ (rem = half /\ q[1] % 2 = 1)
    IN  IF ~up THEN [m |-> q, e |-> e + shift]
        ELSE IF BitLen[BigAdd[q, <<1>>]] > 53
        THEN [m |-> ShiftRight[BigAdd[q, <<1>>], 1], e |-> e + shift + 1]
        ELSE [m |-> BigAdd[q, <<1>>], e |-> e + shift]

\* the float nearest to m * 2^e, ties to the even mantissa
FloatRound[m \in Naturals15, e \in Int] ==
    IF m = << >> THEN FloatZero
    ELSE IF BitLen[m] <= 53
    THEN [m |-> ShiftLeft[m, 53 - BitLen[m]], e |-> e - (53 - BitLen[m])]
    ELSE RoundedUp[m, e, BitLen[m] - 53, ShiftRight[m, BitLen[m] - 53]]

\* twice the quotient, plus one if a remainder is left
WithSticky[d \in Quotients] ==
    BigAdd[MulSmall[d.q, 2], IF d.r = << >> THEN << >> ELSE <<1>>]

\* the float nearest to (p / q) * 2^e for naturals p and q > 0, from the quotient of
\* p * 2^k by q, which has at least 55 bits
RatioShifted[p \in Naturals15, q \in Naturals15, e \in Int, k \in Nat] ==
    FloatRound[WithSticky[BigDivMod[ShiftLeft[p, k + Normalizing[q]],
                                    ShiftLeft[q, Normalizing[q]]]],
               e - k - 1]

\* the float nearest to (p / q) * 2^e for naturals p and q > 0
FloatRatio[p \in Naturals15, q \in Naturals15, e \in Int] ==
    IF p = << >> THEN FloatZero
    ELSE RatioShifted[p, q, e,
                      IF BitLen[q] + 56 > BitLen[p] THEN BitLen[q] + 56 - BitLen[p] ELSE 0]

\* the float literal or quotient n / d of naturals below 2^31: 0.5 is Float[5, 10]
Float[n \in Nat, d \in Nat] == FloatRatio[Big[n], Big[d], 0]

\* x + y
FloatAdd[x \in Floats, y \in Floats] ==
    IF x = FloatZero THEN y
    ELSE IF y = FloatZero THEN x
    ELSE LET e == IF x.e <= y.e THEN x.e ELSE y.e
         IN  FloatRound[BigAdd[ShiftLeft[x.m, x.e - e], ShiftLeft[y.m, y.e - e]], e]

\* x < y
FloatLess[x \in Floats, y \in Floats] ==
    IF y = FloatZero THEN FALSE
    ELSE IF x = FloatZero THEN TRUE
    ELSE IF x.e # y.e THEN x.e < y.e
    ELSE BigLess[x.m, y.m]

\* x - y for x >= y
FloatSub[x \in Floats, y \in Floats] ==
    IF y = FloatZero THEN x
    ELSE LET e == IF x.e <= y.e THEN x.e ELSE y.e
         IN  FloatRound[BigSub[ShiftLeft[x.m, x.e - e], ShiftLeft[y.m, y.e - e]], e]

\* x * y
FloatMul[x \in Floats, y \in Floats] == FloatRound[BigMul[x.m, y.m], x.e + y.e]

\* x / y for y > 0
FloatDiv[x \in Floats, y \in Floats] == FloatRatio[x.m, y.m, x.e - y.e]

\* min(x, y)
FloatMin[x \in Floats, y \in Floats] == IF FloatLess[y, x] THEN y ELSE x

\* a float of either sign: the compensation term of sum() can be negative
Signed == [neg : BOOLEAN, abs : Floats]

\* x - y, of either sign
FloatDiff[x \in Floats, y \in Floats] ==
    IF FloatLess[x, y] THEN [neg |-> TRUE, abs |-> FloatSub[y, x]]
    ELSE [neg |-> FALSE, abs |-> FloatSub[x, y]]

\* a + b
SignedAdd[a \in Signed, b \in Signed] ==
    IF a.neg = b.neg THEN [neg |-> a.neg, abs |-> FloatAdd[a.abs, b.abs]]
    ELSE IF FloatLess[a.abs, b.abs] THEN [neg |-> b.neg, abs |-> FloatSub[b.abs, a.abs]]
    ELSE [neg |-> a.neg /\ a.abs # b.abs, abs |-> FloatSub[a.abs, b.abs]]

\* the float loop of the builtin sum() from the i-th term on, f being the running
\* total and c the running compensation. CPython up to 3.11 adds each term to the
\* total (f_result += x). CPython from 3.12 on also collects what each addition
\* rounded away (Neumaier: t = f + x; c += (f - t) + x if |f| >= |x| else
\* (x - t) + f; f = t) and adds c to the total at the end when c is not zero.
\* The terms are >= 0.
SumFrom[terms \in Seq(Floats), i \in Nat, f \in Floats, c \in Signed, compensated \in BOOLEAN] ==
    IF i > Len(terms)
    THEN (IF c.abs = FloatZero THEN f
          ELSE SignedAdd[[neg |-> FALSE, abs |-> f], c].abs)
    ELSE SumFrom[terms, i + 1, FloatAdd[f, terms[i]],
                 IF ~compensated THEN c
                 ELSE IF FloatLess[f, terms[i]]
                 THEN SignedAdd[c, SignedAdd[FloatDiff[terms[i], FloatAdd[f, terms[i]]],
                                             [neg |-> FALSE, abs |-> f]]]
                 ELSE SignedAdd[c, SignedAdd[FloatDiff[f, FloatAdd[f, terms[i]]],
                                             [neg |-> FALSE, abs |-> terms[i]]]],
                 compensated]

\* sum(terms): 0 for no terms; otherwise 0 + terms[1], which is terms[1], enters the
\* float loop as the running total
Sum[terms \in Seq(Floats), compensated \in BOOLEAN] ==
    IF terms = << >> THEN FloatZero
    ELSE SumFrom[terms, 2, terms[1], [neg |-> FALSE, abs |-> FloatZero], compensated]

----------------------------------------------------------------------------
(* analyze_feces: the risk score of one image and the ledger                *)
(*                                                                          *)
(* Inputs: detector confidences and s_mean, v_mean in 1/100, classifier     *)
(* confidences in percent, h_mean in whole hue units; each is read as the   *)
(* float nearest to it. Scores, risks and thresholds are floats.            *)

\* a str as the sequence of its characters
S_blood == <<"b", "l", "o", "o", "d">>
S_diarrhea == <<"d", "i", "a", "r", "r", "h", "e", "a">>
S_abnormal == <<"a", "b", "n", "o", "r", "m", "a", "l">>
S_parasite == <<"p", "a", "r", "a", "s", "i", "t", "e">>
S_mucus == <<"m", "u", "c", "u", "s">>
S_liquid == <<"l", "i", "q", "u", "i", "d">>

feces_config ==
    [risk_threshold |-> Float[65, 100],
     high_risk_objects |-> {"bird", "chicken", "duck"},
     high_risk_features |-> {S_diarrhea, S_abnormal, S_parasite, S_blood, S_mucus, S_liquid}]

UpperCase == <<"A", "B", "C", "D", "E", "F", "G", "H", "I", "J", "K", "L", "M",
               "N", "O", "P", "Q", "R", "S", "T", "U", "V", "W", "X", "Y", "Z">>
LowerCase == <<"a", "b", "c", "d", "e", "f", "g", "h", "i", "j", "k", "l", "m",
               "n", "o", "p", "q", "r", "s", "t", "u", "v", "w", "x", "y", "z">>

\* str.lower()
Lower(str) ==
    [i \in 1..Len(str) |->
        IF \E j \in 1..Len(UpperCase) : UpperCase[j] = str[i]
        THEN LowerCase[CHOOSE j \in 1..Len(UpperCase) : UpperCase[j] = str[i]]
        ELSE str[i]]

\* keyword in text
Contains(text, keyword) ==
    \E i \in 0..(Len(text) - Len(keyword)) :
        SubSeq(text, i + 1, i + Len(keyword)) = keyword

\* obj["confidence"] and feat["confidence"] as floats
ObjectConfidence(obj) == Float[obj.confidence, 100]
FeatureConfidence(feat) == Float[feat.confidence, 1]

\* h_mean and s_mean as floats
HMean(h) == Float[h, 1]
SMean(s) == Float[s, 100]

IsRiskObject(obj) ==
    /\ obj.name \in feces_config.high_risk_objects
    /\ FloatLess[Float[5, 10], ObjectConfidence(obj)]

\* risk_objects
RiskObjects(detection) == SelectSeq(detection, IsRiskObject)

IsRiskFeature(feat) ==
    LET label == Lower(feat.label)
    IN  /\ \E keyword \in feces_config.high_risk_features : Contains(label, keyword)
        /\ FloatLess[Float[50, 1], FeatureConfidence(feat)]

\* risk_features
RiskFeatures(classification) == SelectSeq(classification, IsRiskFeature)

\* avian_flu_risk = 0.3 * min((40 - h_mean) / 10 + (s_mean - 0.65) / 0.1, 1.0)
AvianFluRisk(h, s) ==
    IF FloatLess[HMean(h), Float[40, 1]] /\ FloatLess[Float[65, 100], SMean(s)]
    THEN FloatMul[Float[3, 10],
                  FloatMin[FloatAdd[FloatDiv[FloatSub[Float[40, 1], HMean(h)], Float[10, 1]],
                                    FloatDiv[FloatSub[SMean(s), Float[65, 100]], Float[1, 10]]],
                           Float[1, 1]]]
    ELSE FloatZero

\* sum(obj["confidence"] * 0.5 for obj in risk_objects)
SumObjects(objs, compensated) ==
    Sum[[i \in 1..Len(objs) |-> FloatMul[ObjectConfidence(objs[i]), Float[5, 10]]],
        compensated]

\* sum(feat["confidence"] * 0.2 for feat in risk_features)
SumFeatures(feats, compensated) ==
    Sum[[i \in 1..Len(feats) |-> FloatMul[FeatureConfidence(feats[i]), Float[2, 10]]],
        compensated]

\* total_risk: the five terms added left to right
TotalRisk(risk_objects, risk_features, h, s, compensated) ==
    FloatAdd[FloatAdd[FloatAdd[FloatAdd[SumObjects(risk_objects, compensated),
                                        SumFeatures(risk_features, compensated)],
                               AvianFluRisk(h, s)],
                      IF FloatLess[HMean(h), Float[50, 1]] THEN Float[3, 10] ELSE FloatZero],
             IF FloatLess[Float[6, 10], SMean(s)] THEN Float[3, 10] ELSE FloatZero]

IsPoultry(obj) == obj.name \in {"chicken", "duck"}

ThresholdOverAllDetections(detection, risk_objects) ==
    IF \E i \in 1..Len(detection) : IsPoultry(detection[i])
    THEN Float[6, 10] ELSE Float[65, 100]

\* threshold = 0.6 if any(obj["name"] in ["chicken", "duck"] for obj in risk_objects) else 0.65
Threshold(detection, risk_objects) ==
    IF \E i \in 1..Len(risk_objects) : IsPoultry(risk_objects[i])
    THEN Float[6, 10] ELSE Float[65, 100]

\* risk_level: "高风险" is HighRisk, "低风险" is LowRisk
RiskLevel(total_risk, threshold) ==
    IF FloatLess[threshold, total_risk] THEN "HighRisk" ELSE "LowRisk"

\* _generate_advice(h, s): the paragraphs joined by blank lines, each named by its rule
\* and the number formatted into it
GenerateAdvice(h, s) ==
    LET advice == (IF FloatLess[HMean(h), Float[40, 1]]
                   THEN <<[rule |-> "low_hue", value |-> h]>> ELSE << >>)
                  \o (IF FloatLess[Float[65, 100], SMean(s)]
                      THEN <<[rule |-> "high_saturation", value |-> s]>> ELSE << >>)
                  \o (IF FloatLess[HMean(h), Float[50, 1]] \/ FloatLess[Float[6, 10], SMean(s)]
                      THEN <<[rule |-> "medium_risk", value |-> 0]>> ELSE << >>)
    IN  IF advice # << >> THEN advice ELSE <<[rule |-> "no_risk", value |-> 0]>>

\* the dict analyze_feces builds, updates and returns
Analysis(detection, classification, hsv, now, compensated) ==
    LET risk_objects == RiskObjects(detection)
        risk_features == RiskFeatures(classification)
        total_risk == TotalRisk(risk_objects, risk_features, hsv.h, hsv.s, compensated)
    IN  [timestamp |-> now,
         risk_level |-> RiskLevel(total_risk, Threshold(detection, risk_objects)),
         probability |-> total_risk,
         detected_objects |-> risk_objects,
         detected_features |-> risk_features,
         local_h |-> hsv.h,
         local_s |-> hsv.s,
         local_v |-> hsv.v,
         avian_flu_risk |-> AvianFluRisk(hsv.h, hsv.s),
         h_alert |-> FloatLess[HMean(hsv.h), Float[40, 1]],
         s_alert |-> FloatLess[Float[65, 100], SMean(hsv.s)],
         expert_advice |-> GenerateAdvice(hsv.h, hsv.s)]

\* analyze_feces returned None
NoAnalysis == [none |-> TRUE]

LedgerPrepend(history, record) == <<record>> \o history

\* self.feces_history.append(analysis)
LedgerAppend(history, record) == Append(history, record)

(* Inputs: what the collaborators of analyze_feces can hand it *)

Obj(n, c) == [name |-> n, confidence |-> c]
Feat(l, c) == [label |-> l, confidence |-> c]


\* result["classification"]: the top 5 of the classifier, without and with a
\* high-risk feature above 50 percent
NoRiskFeature ==
    <<Feat(<<"t", "a", "b", "b", "y">>, 51),
      Feat(<<"B", "l", "o", "o", "d", "h", "o", "u", "n", "d">>, 40),
      Feat(<<"l", "y", "n", "x">>, 5),
      Feat(<<"h", "e", "n">>, 2),
      Feat(<<"c", "u", "p">>, 1)>>

RiskFeature ==
    <<Feat(<<"B", "l", "o", "o", "d", "h", "o", "u", "n", "d">>, 55),
      Feat(<<"t", "a", "b", "b", "y">>, 20),
      Feat(<<"l", "y", "n", "x">>, 10),
      Feat(<<"h", "e", "n">>, 5),
      Feat(<<"c", "u", "p">>, 1)>>

Hsv(h, s, v) == [h |-> h, s |-> s, v |-> v]

Failed(preprocessed) ==
    [preprocessed |-> preprocessed, analyzed |-> FALSE, detection |-> << >>,
     classification |-> << >>, hsv |-> Hsv(0, 0, 0)]

Image(detection, classification, hsv) ==
    [preprocessed |-> TRUE, analyzed |-> TRUE, detection |-> detection,
     classification |-> classification, hsv |-> hsv]

\* result["detection"] (the boxes YOLO found), result["classification"] and the HSV
\* means of the images analyze_feces is given; the score of the last one is 0.87
\* under a compensating sum() and 0.8700000000000001 under a plain one
AnalyzedInputs ==
    {Image(<< >>, NoRiskFeature, Hsv(60, 55, 80)),
     Image(<< >>, RiskFeature, Hsv(60, 55, 80)),
     Image(<<Obj("bird", 54), Obj("chicken", 66)>>, NoRiskFeature, Hsv(60, 55, 80)),
     Image(<<Obj("bird", 54), Obj("bird", 66)>>, NoRiskFeature, Hsv(60, 55, 80)),
     Image(<<Obj("bird", 54), Obj("bird", 66), Obj("duck", 50)>>, NoRiskFeature, Hsv(60, 55, 80)),
     Image(<<Obj("dog", 90), Obj("chicken", 60)>>, NoRiskFeature, Hsv(45, 55, 50)),
     Image(<<Obj("chicken", 65)>>, RiskFeature, Hsv(35, 70, 50)),
     Image(<<Obj("chicken", 59), Obj("bird", 51), Obj("bird", 64)>>, NoRiskFeature, Hsv(60, 55, 80))}

FecesInputs == {Failed(FALSE), Failed(TRUE)} \cup AnalyzedInputs

\* what datetime.now().strftime("%Y-%m-%d %H:%M") can read: the minute of the wall
\* clock, which two calls may share
ClockReadings == 0..2

\* Analysis of every image at every reading of the clock under either builtin sum(),
\* evaluated once
AnalysisOf ==
    [in \in AnalyzedInputs, now \in ClockReadings, compensated \in BOOLEAN |->
        Analysis(in.detection, in.classification, in.hsv, now, compensated)]

\* analyze_feces(img_path): in.preprocessed is what _preprocess_image returned,
\* in.analyzed whether local_model.analyze_image returned a result; now is what the
\* clock reads on line 365, which a call that returns None never reaches
AnalyzeFeces(in, now) ==
    /\ nfeces < MaxFecesCalls
    /\ Len(feces_history) < MaxLedger
    /\ nfeces' = nfeces + 1
    /\ feces_input' = in
    /\ IF ~in.preprocessed \/ ~in.analyzed
       THEN /\ analysis' = NoAnalysis
            /\ feces_history' = feces_history
       ELSE /\ analysis' = AnalysisOf[in, now, compensated_sum]
            /\ feces_history' = LedgerAppend(feces_history, analysis')
    /\ UNCHANGED compensated_sum
    /\ UNCHANGED exceptFeces

\* get_data_export("feces_history"): reads the ledger
GetDataExport ==
    /\ UNCHANGED fecesVars
    /\ UNCHANGED exceptFeces

FecesInit ==
    /\ feces_history = << >>
    /\ analysis = NoAnalysis
    /\ feces_input = Failed(FALSE)
    /\ nfeces = 0
    /\ compensated_sum \in BOOLEAN

FecesNext ==
    \/ \E in \in FecesInputs, now \in ClockReadings : AnalyzeFeces(in, now)
    \/ GetDataExport

----------------------------------------------------------------------------
(* Exact fractions [n, d] with d > 0 and gcd(n, d) = 1, for the float arithmetic *)

Abs(x) == IF x < 0 THEN -x ELSE x

RECURSIVE GCD(_, _)
GCD(a, b) == IF b = 0 THEN a ELSE GCD(b, a % b)

Rat(n, d) ==
    LET g == GCD(Abs(n), Abs(d))
        sign == IF d < 0 THEN -1 ELSE 1
    IN  [n |-> sign * (n \div g), d |-> sign * (d \div g)]

FromInt(i) == [n |-> i, d |-> 1]

RatNeg(a) == [n |-> -a.n, d |-> a.d]

RatAdd(a, b) ==
    LET g == GCD(a.d, b.d)
    IN  Rat(a.n * (b.d \div g) + b.n * (a.d \div g), (a.d \div g) * b.d)

RatSub(a, b) == RatAdd(a, RatNeg(b))

RatMul(a, b) ==
    LET g1 == GCD(Abs(a.n), b.d)
        g2 == GCD(Abs(b.n), a.d)
    IN  IF a.n = 0 \/ b.n = 0 THEN FromInt(0)
        ELSE [n |-> (a.n \div g1) * (b.n \div g2), d |-> (a.d \div g2) * (b.d \div g1)]

\* a / b for b # 0
RatDiv(a, b) == RatMul(a, IF b.n < 0 THEN [n |-> -b.d, d |-> -b.n] ELSE [n |-> b.d, d |-> b.n])

RatLeq(a, b) == a.n * b.d <= b.n * a.d

RatMax(a, b) == IF RatLeq(a, b) THEN b ELSE a

----------------------------------------------------------------------------
(* evaluate_interventions                                                   *)
(* Units: beta_reduction and effectiveness in 1/100.                        *)

interventions ==
    [vaccination |-> [cost |-> 5000, effectiveness |-> 70, beta_reduction |-> 30],
     isolation   |-> [cost |-> 2000, effectiveness |-> 90, beta_reduction |-> 50],
     sanitation  |-> [cost |-> 1000, effectiveness |-> 60, beta_reduction |-> 20],
     restriction |-> [cost |-> 3000, effectiveness |-> 80, beta_reduction |-> 40]]

ZeroDivisionError == [error |-> "ZeroDivisionError"]

\* total_cost after the loop over selected_measures
RECURSIVE TotalCost(_)
TotalCost(selected) ==
    IF selected = << >> THEN 0
    ELSE (IF Head(selected) \in DOMAIN interventions
          THEN interventions[Head(selected)].cost ELSE 0) + TotalCost(Tail(selected))

TotalBetaReductionOfLast(selected) ==
    IF selected # << >> /\ selected[Len(selected)] \in DOMAIN interventions
    THEN interventions[selected[Len(selected)]].beta_reduction
    ELSE 0

\* total_beta_reduction after the loop over selected_measures
RECURSIVE TotalBetaReduction(_)
TotalBetaReduction(selected) ==
    IF selected = << >> THEN 0
    ELSE (IF Head(selected) \in DOMAIN interventions
          THEN interventions[Head(selected)].beta_reduction ELSE 0)
         + TotalBetaReduction(Tail(selected))

NewBetaFloorFivePercent(beta, total_beta_reduction) ==
    RatMax(Rat(5, 100), RatMul(Rat(beta, 1000), Rat(100 - total_beta_reduction, 100)))

\* new_beta = max(0.01, self.params['beta'] * (1 - total_beta_reduction))
NewBeta(beta, total_beta_reduction) ==
    RatMax(Rat(1, 100), RatMul(Rat(beta, 1000), Rat(100 - total_beta_reduction, 100)))

\* evaluate_interventions(selected_measures) under parameters p
EvaluateInterventions(selected, p) ==
    IF p.gamma = 0 THEN ZeroDivisionError
    ELSE LET original_r0 == Rat(p.beta, p.gamma)
             new_beta == NewBeta(p.beta, TotalBetaReduction(selected))
             new_r0 == RatDiv(new_beta, Rat(p.gamma, 1000))
         IN  IF original_r0.n = 0 THEN ZeroDivisionError
             ELSE [total_cost |-> TotalCost(selected),
                   r0_reduction |-> RatMul(RatDiv(RatSub(original_r0, new_r0), original_r0),
                                           FromInt(100)),
                   new_r0 |-> new_r0,
                   measures |-> selected]

\* evaluate_interventions has not been called
NoEvaluation == [none |-> TRUE]

RemoveAt(seq, pos) == SubSeq(seq, 1, pos - 1) \o SubSeq(seq, pos + 1, Len(seq))

(* Inputs *)

\* three of the catalog's four measures (their beta_reduction sums to 1.2) and one
\* the catalog does not know
MeasureInputs == {"vaccination", "isolation", "restriction", "culling"}

\* lists of at most n elements of S
ListsUpTo(S, n) == UNION {[1..k -> S] : k \in 0..n}

\* what a caller may pass to evaluate_interventions: any list, repeats and unknown
\* ids included
SelectionInputs == ListsUpTo(MeasureInputs, MaxSelected)

\* what st.multiselect returns: distinct options, in the order they were picked
MultiselectInputs ==
    {sel \in ListsUpTo(MeasureInputs \cap DOMAIN interventions, MaxSelected) :
        \A i, j \in 1..Len(sel) : i # j => sel[i] # sel[j]}

EvalBetas == {0, 5, 10, 300}

EvalGammas == {0, 100}

\* generate_simulation(d) raises under parameters p (ZeroDivisionError at line 148)
SimulationRaises(d, p) == d > 1 /\ p.population = 0

\* beta the comparison of main is simulated with:
\* original_beta * (1 - evaluation['r0_reduction'] / 100)
ComparisonBeta(p, ev) ==
    RatMul(Rat(p.beta, 1000),
           RatSub(FromInt(1), RatDiv(ev.r0_reduction, FromInt(100))))

\* self.params after the block "if selected:" of main: beta is overwritten for the second
\* generate_simulation(100) and assigned back after it; an exception leaves the block
\* where it is raised
ParamsAfterComparison(p, ev) ==
    IF "total_cost" \notin DOMAIN ev THEN p
    ELSE IF SimulationRaises(100, p) THEN p
    ELSE IF SimulationRaises(100, [p EXCEPT !.beta = ComparisonBeta(p, ev)])
         THEN [p EXCEPT !.beta = ComparisonBeta(p, ev)]
         ELSE [[p EXCEPT !.beta = ComparisonBeta(p, ev)] EXCEPT !.beta = p.beta]

\* main, tab5: the multiselect's list replaces the stored one; a non-empty list is
\* evaluated and the course of the epidemic with and without the measures compared
SelectMeasures(sel) ==
    /\ selected_measures' = sel
    /\ IF sel # << >>
       THEN /\ evaluated' = sel
            /\ evaluation' = EvaluateInterventions(sel, params)
            /\ params' = ParamsAfterComparison(params, evaluation')
       ELSE UNCHANGED <<evaluated, evaluation, params>>
    /\ UNCHANGED <<env_factors, nchanges, exceptEval>>

\* evaluate_interventions(sel)
Evaluate(sel) ==
    /\ evaluated' = sel
    /\ evaluation' = EvaluateInterventions(sel, params)
    /\ UNCHANGED selected_measures
    /\ UNCHANGED <<objectVars, exceptEval>>

EvalInit ==
    /\ selected_measures = << >>
    /\ evaluated = << >>
    /\ evaluation = NoEvaluation

EvalNext ==
    \/ \E sel \in MultiselectInputs : SelectMeasures(sel)
    \/ \E sel \in SelectionInputs : Evaluate(sel)

----------------------------------------------------------------------------
(* generate_simulation                                                      *)
(* Units: beta, gamma and migration_rate in 1/1000; S, I, R exact fractions.*)

\* adjusted_beta
AdjustedBeta(p, e) ==
    RatMul(Rat(p.beta, 1000),
           RatAdd(RatAdd(FromInt(1), Rat(2 * (e.temperature - 20), 1000)),
                  Rat(15 * (e.humidity - 60), 20000)))

\* list[-1]
Last(list) == list[Len(list)]

SimStepTwoBack(st, adjusted_beta, p, e) ==
    LET migration_rate == Rat(e.migration_rate, 1000)
        new_infected == RatDiv(RatMul(RatMul(adjusted_beta, Last(st.S)), Last(st.I)),
                               FromInt(p.population))
        new_recovered == RatMul(Rat(p.gamma, 1000), Last(st.I))
        two_back == IF Len(st.S) >= 2 THEN st.S[Len(st.S) - 1] ELSE st.S[1]
    IN  [S |-> Append(st.S, RatSub(RatSub(Last(st.S), new_infected),
                                   RatMul(migration_rate, Last(st.S)))),
         I |-> Append(st.I, RatAdd(RatSub(RatAdd(Last(st.I), new_infected), new_recovered),
                                   RatMul(migration_rate, two_back))),
         R |-> Append(st.R, RatAdd(Last(st.R), new_recovered))]

SimStepWithoutInflow(st, adjusted_beta, p, e) ==
    LET migration_rate == Rat(e.migration_rate, 1000)
        new_infected == RatDiv(RatMul(RatMul(adjusted_beta, Last(st.S)), Last(st.I)),
                               FromInt(p.population))
        new_recovered == RatMul(Rat(p.gamma, 1000), Last(st.I))
    IN  [S |-> Append(st.S, RatSub(RatSub(Last(st.S), new_infected),
                                   RatMul(migration_rate, Last(st.S)))),
         I |-> Append(st.I, RatSub(RatAdd(Last(st.I), new_infected), new_recovered)),
         R |-> Append(st.R, RatAdd(Last(st.R), new_recovered))]

\* one pass of the loop body: S is appended first, so S[-2] is the value S[-1] had
\* when the pass began
SimStep(st, adjusted_beta, p, e) ==
    LET migration_rate == Rat(e.migration_rate, 1000)
        new_infected == RatDiv(RatMul(RatMul(adjusted_beta, Last(st.S)), Last(st.I)),
                               FromInt(p.population))
        new_recovered == RatMul(Rat(p.gamma, 1000), Last(st.I))
        S1 == Append(st.S, RatSub(RatSub(Last(st.S), new_infected),
                                  RatMul(migration_rate, Last(st.S))))
        I1 == Append(st.I, RatAdd(RatSub(RatAdd(Last(st.I), new_infected), new_recovered),
                                  RatMul(migration_rate, S1[Len(S1) - 1])))
        R1 == Append(st.R, RatAdd(Last(st.R), new_recovered))
    IN  [S |-> S1, I |-> I1, R |-> R1]

RECURSIVE SimLoop(_, _, _, _, _)
SimLoop(n, st, adjusted_beta, p, e) ==
    IF n = 0 THEN st
    ELSE SimLoop(n - 1, SimStep(st, adjusted_beta, p, e), adjusted_beta, p, e)

IterationsFromZero(d) == IF d > 0 THEN d ELSE 0

\* len(range(1, days))
Iterations(d) == IF d > 1 THEN d - 1 ELSE 0

\* list(range(days))
Range(d) == [i \in 1..(IF d > 0 THEN d ELSE 0) |-> i - 1]

\* pd.DataFrame of four columns: the columns must have one length
DataFrame(Day, S, I, R) ==
    IF Len(S) = Len(Day) /\ Len(I) = Len(Day) /\ Len(R) = Len(Day)
    THEN [frame |-> [i \in 1..Len(Day) |->
                        [Day |-> Day[i], Susceptible |-> S[i], Infected |-> I[i],
                         Recovered |-> R[i]]]]
    ELSE [error |-> "ValueError"]

\* S, I, R before the loop
InitialLists(p) ==
    [S |-> <<FromInt(p.population - p.initial_infected)>>,
     I |-> <<FromInt(p.initial_infected)>>,
     R |-> <<FromInt(0)>>]

\* generate_simulation(days) under parameters p and environment e
GenerateSimulationResult(d, p, e) ==
    IF Iterations(d) > 0 /\ p.population = 0 THEN ZeroDivisionError
    ELSE LET st == SimLoop(Iterations(d), InitialLists(p), AdjustedBeta(p, e), p, e)
         IN  DataFrame(Range(d), st.S, st.I, st.R)

\* generate_simulation has not been called
NoSimulation == [none |-> TRUE]

(* Inputs *)

DaysInputs == (-1)..MaxDays

SimBetas == {0, 500, 1000}

SimGammas == {0, 500, 1000}

SimMigrationRates == {0, 500}

\* the baseline environment and one whose two corrections cancel
PlainEnvs == {[temperature |-> 20, humidity |-> 60], [temperature |-> 5, humidity |-> 100]}

\* adjusted_beta = 17/16 beta
HotEnv == [temperature |-> 40, humidity |-> 90]

SimSettings ==
    {[params |-> [beta |-> b, gamma |-> g, population |-> n, initial_infected |-> i],
      env |-> [temperature |-> e.temperature, humidity |-> e.humidity, migration_rate |-> m]] :
        b \in SimBetas, g \in SimGammas, n \in {-2, 0, 2, 4}, i \in {1, 3, 5},
        e \in PlainEnvs, m \in SimMigrationRates}
    \cup
    {[params |-> [beta |-> b, gamma |-> g, population |-> 17, initial_infected |-> i],
      env |-> [temperature |-> HotEnv.temperature, humidity |-> HotEnv.humidity,
               migration_rate |-> m]] :
        b \in {0, 1000}, g \in SimGammas, i \in {1, 16, 18}, m \in SimMigrationRates}

\* generate_simulation(d)
GenerateSimulation(d) ==
    /\ days' = d
    /\ simulation' = GenerateSimulationResult(d, params, env_factors)
    /\ UNCHANGED <<objectVars, exceptSim>>

SimInit ==
    /\ days = 100
    /\ simulation = NoSimulation

SimNext == \E d \in DaysInputs : GenerateSimulation(d)

----------------------------------------------------------------------------
(* Specifications *)

Init == ParamsInit /\ AdvisoryInit /\ FecesInit /\ EvalInit /\ SimInit

\* the advisory client
Next == AdvisoryNext

Spec == Init /\ [][Next]_vars

\* calls of ai_analysis on their own (no assignment can be made while one runs); each
\* runs to completion: requests.post returns or raises, time.sleep returns
LiveSpec ==
    Init /\ [][CallNext]_vars /\ WF_vars(\E o \in Outcomes : Post(o)) /\ WF_vars(Sleep)

\* the feces analysis and its ledger
FecesSpec == Init /\ [][FecesNext]_vars

\* evaluate_interventions under the parameters a caller may have set; it does not call
\* sum(), so one kind of interpreter stands for both
EvalSpecInit ==
    /\ params \in {[InitParams EXCEPT !.beta = b, !.gamma = g] : b \in EvalBetas, g \in EvalGammas}
    /\ env_factors = InitEnv
    /\ nchanges = 0
    /\ AdvisoryInit /\ FecesInit /\ EvalInit /\ SimInit
    /\ ~compensated_sum

EvalSpec == EvalSpecInit /\ [][EvalNext]_vars

\* generate_simulation under the parameters and environment a caller may have set; it
\* does not call sum(), so one kind of interpreter stands for both
SimSpecInit ==
    /\ \E s \in SimSettings : params = s.params /\ env_factors = s.env
    /\ nchanges = 0
    /\ AdvisoryInit /\ FecesInit /\ EvalInit /\ SimInit
    /\ ~compensated_sum

SimSpec == SimSpecInit /\ [][SimNext]_vars

----------------------------------------------------------------------------
(* Claims about the advisory cache and the retrying client *)

\* the step begins a call of ai_analysis with the query and snapshot of served entry s
CallsAgain(s) ==
    /\ pc = "idle"
    /\ ncalls' = ncalls + 1
    /\ query' = s.query
    /\ params = s.params
    /\ env_factors = s.env

\* the call begun by the step ends in it, with text t and without any remote request
AnsweredFromCache(t) == pc' = "idle" /\ nreq' = 0 /\ result' = t

\* C1 as stated: once a call has returned an advisory for a (query, snapshot) pair,
\* every later call with that pair returns the cached text without a remote request,
\* so that two calls with one pair make one remote call.
C1_OneRemoteCallPerKey ==
    [][\A s \in served : CallsAgain(s) => AnsweredFromCache(s.text)]_vars

\* C1 amended: once a call has returned a non-empty advisory for a (query, snapshot)
\* pair, every later call with that pair, whatever calls and reverted parameter
\* changes lie between, returns that text and issues no remote request.
C1_NonEmptyAdvisoryIsMemoized ==
    [][\A s \in served : (s.text # "" /\ CallsAgain(s)) => AnsweredFromCache(s.text)]_vars

\* C1 witness: the first call fetched adviceA for a pair, the temperature was assigned
\* another value, the second call fetched adviceB for another pair, the temperature
\* was set back, and the third call, with the first pair again, was answered adviceA
\* from the cache, which still holds both entries
C1_Witness ==
    /\ pc = "idle" /\ ncalls = 3 /\ nreq = 0 /\ last_outcome = "none"
    /\ result = "adviceA"
    /\ nchanges = 2 /\ params = InitParams /\ env_factors = InitEnv
    /\ analysis_cache = cache_at_call
    /\ \E first \in served, between \in served :
          /\ first.call = 1 /\ first.text = "adviceA"
          /\ first.query = query /\ first.params = params /\ first.env = env_factors
          /\ between.call = 2 /\ between.text = "adviceB"
          /\ between.env # env_factors
          /\ CacheKey(between.query, between.params, between.env)
                \in DOMAIN analysis_cache
          /\ analysis_cache[CacheKey(between.query, between.params, between.env)]
                = "adviceB"
          /\ analysis_cache[cache_key] = "adviceA"

\* C2: a call of ai_analysis that ends without an advisory (None after exhausted
\* retries or a malformed response, or an escaping exception) leaves analysis_cache
\* as it was when the call began, and every cache entry is the text of a successful
\* remote response to the query and snapshot its key is made of.
C2_CacheHoldsOnlySuccesses ==
    /\ (pc = "idle" /\ result \in {None} \cup Raised) => analysis_cache = cache_at_call
    /\ \A k \in DOMAIN analysis_cache :
          \E s \in served :
              /\ s.text = analysis_cache[k]
              /\ s.text # ""
              /\ CacheKey(s.query, s.params, s.env) = k

\* a call failed after three request failures while the cache held an entry
C2_Witness ==
    /\ pc = "idle" /\ result = None /\ nreq = 3
    /\ DOMAIN analysis_cache # {}
    /\ analysis_cache = cache_at_call

\* C3: a call of ai_analysis_with_retry issues at most 3 remote requests, ends, and
\* returns None when 3 attempts failed with a request failure.
C3_BoundedRetries ==
    /\ [](nreq <= 3)
    /\ []((pc = "idle" /\ retries = 3) => (result = None /\ nreq = 3))
    /\ ((pc # "idle") ~> (pc = "idle"))

\* three request failures in one call, which then returned None
C3_Witness ==
    pc = "idle" /\ retries = 3 /\ nreq = 3 /\ result = None /\ Len(waits) = 3

\* C4 as stated: a malformed response (unparseable or wrongly shaped body) ends the
\* call at once with a failure: no wait and no further request follows it.
C4_MalformedEndsCall ==
    last_outcome \in Malformed => (pc = "idle" /\ result \in {None} \cup Raised)

\* C13 as stated: after the k-th failed retryable attempt of a call the client waits
\* exactly 2^k time units, the waits between consecutive attempts are 2 and then 4, and
\* each wait is followed by another attempt.
C13_BackoffBetweenAttempts ==
    /\ \A k \in 1..Len(waits) : waits[k] = 2^k
    /\ Len(waits) <= 2
    /\ (pc = "idle" /\ waits # << >>) => Len(waits) < nreq


----------------------------------------------------------------------------
(* Claims about analyze_feces *)

\* C5: the ledger is append-only: a call of analyze_feces that returns None leaves
\* feces_history unchanged, a call that returns a record appends exactly that record
\* at the end, and no step removes, reorders or alters a record already there.
C5_LedgerAppendOnly ==
    [][/\ (nfeces' = nfeces + 1 /\ analysis' = NoAnalysis) => feces_history' = feces_history
       /\ (nfeces' = nfeces + 1 /\ analysis' # NoAnalysis) =>
              feces_history' = feces_history \o <<analysis'>>
       /\ nfeces' = nfeces => feces_history' = feces_history
       /\ Len(feces_history') >= Len(feces_history)
       /\ SubSeq(feces_history', 1, Len(feces_history)) = feces_history]_vars

\* a call failed and two calls appended their different records, in call order
C5_Witness ==
    /\ Len(feces_history) = 2
    /\ feces_history[1] # feces_history[2]
    /\ feces_history[2] = analysis
    /\ nfeces = 3

\* the threshold the claim names: 0.6 when a retained risk object is poultry,
\* otherwise the configured risk_threshold
C6_Retained(detection) ==
    {i \in 1..Len(detection) :
        /\ detection[i].name \in feces_config.high_risk_objects
        /\ FloatLess[Float[5, 10], Float[detection[i].confidence, 100]]}

C6_Threshold(detection) ==
    IF \E i \in C6_Retained(detection) : detection[i].name \in {"chicken", "duck"}
    THEN Float[6, 10]
    ELSE feces_config.risk_threshold

\* C6: the verdict is HighRisk exactly when total_risk > threshold, the threshold being
\* 0.6 if a retained risk object is labelled chicken or duck and 0.65 otherwise.
C6_VerdictByDynamicThreshold ==
    analysis # NoAnalysis =>
        /\ analysis.risk_level \in {"HighRisk", "LowRisk"}
        /\ (analysis.risk_level = "HighRisk")
               <=> FloatLess[C6_Threshold(feces_input.detection), analysis.probability]

\* both thresholds decided a verdict: a score above 0.6 and not above 0.65 is HighRisk
\* with a retained chicken and LowRisk without one
C6_Witness ==
    /\ Len(feces_history) = 2
    /\ feces_history[1].probability = feces_history[2].probability
    /\ FloatLess[Float[6, 10], feces_history[1].probability]
    /\ ~FloatLess[Float[65, 100], feces_history[1].probability]
    /\ feces_history[1].risk_level = "HighRisk"
    /\ feces_history[2].risk_level = "LowRisk"

----------------------------------------------------------------------------
(* Claims about evaluate_interventions *)

Evaluated(ev) == "total_cost" \in DOMAIN ev

\* the result the same parameters give for the selection without its element at pos
Without(pos) == EvaluateInterventions(RemoveAt(evaluation.measures, pos), params)

\* the element at pos of the evaluated selection is a catalog intervention
Added(pos) == evaluation.measures[pos] \in DOMAIN interventions

\* C7: adding a catalog intervention to a selection never decreases total_cost and
\* never decreases r0_reduction, for every parameter setting with gamma > 0: the result
\* for a selection is not below the result for that selection less one catalog measure.
C7_Monotonic ==
    (Evaluated(evaluation) /\ params.gamma > 0) =>
        \A pos \in 1..Len(evaluation.measures) :
            Added(pos) =>
                /\ Evaluated(Without(pos))
                /\ Without(pos).total_cost <= evaluation.total_cost
                /\ RatLeq(Without(pos).r0_reduction, evaluation.r0_reduction)

\* a selection whose summed beta_reduction exceeds 1 was evaluated (new_beta clamped);
\* without one of its measures the sum is below 1 and r0_reduction strictly smaller
C7_Witness ==
    /\ Evaluated(evaluation) /\ params.gamma > 0
    /\ TotalBetaReduction(evaluation.measures) > 100
    /\ evaluation.new_r0 = RatDiv(Rat(1, 100), Rat(params.gamma, 1000))
    /\ \E pos \in 1..Len(evaluation.measures) :
          /\ Added(pos)
          /\ TotalBetaReduction(RemoveAt(evaluation.measures, pos)) < 100
          /\ ~RatLeq(evaluation.r0_reduction, Without(pos).r0_reduction)

\* C8 as stated: for every beta and every gamma > 0, the empty selection evaluates to
\* total_cost = 0 and r0_reduction = 0.
C8_EmptySelectionNeutral ==
    (evaluation # NoEvaluation /\ evaluated = << >> /\ params.gamma > 0) =>
        /\ Evaluated(evaluation)
        /\ evaluation.total_cost = 0
        /\ evaluation.r0_reduction = FromInt(0)

\* C8 amended: for every beta >= 0.01 and every gamma > 0, the empty selection
\* evaluates to total_cost = 0 and r0_reduction = 0.
C8_EmptySelectionNeutralFromFloor ==
    (evaluation # NoEvaluation /\ evaluated = << >> /\ params.gamma > 0
        /\ params.beta >= 10) =>
        /\ Evaluated(evaluation)
        /\ evaluation.total_cost = 0
        /\ evaluation.r0_reduction = FromInt(0)

\* the empty selection was evaluated with beta at the floor 0.01
C8_Witness ==
    /\ evaluated = << >>
    /\ Evaluated(evaluation) /\ evaluation.measures = << >>
    /\ params.beta = 10 /\ params.gamma > 0
    /\ evaluation.r0_reduction = FromInt(0)


----------------------------------------------------------------------------
(* Claims about generate_simulation *)

Returned(sim) == "frame" \in DOMAIN sim

\* SimulationParameters as the specification constrains them
ValidParameters(p) ==
    p.population > 0 /\ 0 < p.initial_infected /\ p.initial_infected <= p.population

\* C9 as stated: the simulation call fails with an InvalidParameter error, and returns
\* no result, whenever population <= 0, or initial_infected > population, or days < 1.
C9_InvalidParameterRejected ==
    (simulation # NoSimulation
        /\ (params.population <= 0 \/ params.initial_infected > params.population \/ days < 1))
    => (~Returned(simulation) /\ simulation = [error |-> "InvalidParameter"])

InitialRecord(p) ==
    [Day |-> 0, Susceptible |-> FromInt(p.population - p.initial_infected),
     Infected |-> FromInt(p.initial_infected), Recovered |-> FromInt(0)]

\* C10: for every valid parameter set and every days >= 1, generate_simulation returns
\* exactly days records numbered 0..days-1 whose Day 0 record is S = population -
\* initial_infected, I = initial_infected, R = 0; days = 1 returns only that record.
C10_LengthAndInitialRecord ==
    (simulation # NoSimulation /\ ValidParameters(params) /\ days >= 1) =>
        /\ Returned(simulation)
        /\ Len(simulation.frame) = days
        /\ \A i \in 1..days : simulation.frame[i].Day = i - 1
        /\ simulation.frame[1] = InitialRecord(params)
        /\ (days = 1 => simulation.frame = <<InitialRecord(params)>>)

\* three or more days were simulated for valid parameters in a corrected environment,
\* and the infection moved the state off the initial record
C10_Witness ==
    /\ Returned(simulation) /\ ValidParameters(params) /\ days >= 3
    /\ env_factors.temperature # 20
    /\ Len(simulation.frame) = days
    /\ simulation.frame[2].Susceptible # simulation.frame[1].Susceptible
    /\ simulation.frame[3].Infected # simulation.frame[2].Infected

\* the parameter and environment ranges the claims about the trajectory are stated for
InClaimedRanges ==
    /\ ValidParameters(params)
    /\ 0 <= params.beta /\ params.beta <= 1000
    /\ 0 <= params.gamma /\ params.gamma <= 1000
    /\ 0 <= env_factors.migration_rate /\ env_factors.migration_rate < 1000

NonNegative(x) == x.n >= 0

\* C11 as stated: for all valid simulation parameters (population > 0, 0 <
\* initial_infected <= population, 0 <= beta, gamma <= 1) and migration_rate in [0,1),
\* Susceptible, Infected and Recovered are >= 0 on every day of the result.
C11_NonNegativeTrajectory ==
    (Returned(simulation) /\ InClaimedRanges) =>
        \A i \in 1..Len(simulation.frame) :
            /\ NonNegative(simulation.frame[i].Susceptible)
            /\ NonNegative(simulation.frame[i].Infected)
            /\ NonNegative(simulation.frame[i].Recovered)

\* the record of day t (records are numbered from 0)
Row(t) == simulation.frame[t + 1]

NewInfectedOn(t) ==
    RatDiv(RatMul(RatMul(AdjustedBeta(params, env_factors), Row(t - 1).Susceptible),
                  Row(t - 1).Infected),
           FromInt(params.population))

NewRecoveredOn(t) == RatMul(Rat(params.gamma, 1000), Row(t - 1).Infected)

MigrationOf(s) == RatMul(Rat(env_factors.migration_rate, 1000), s)

\* S[t] = S[t-1] - new_infected - migration_rate * S[t-1]
SusceptibleRecurrence(t) ==
    Row(t).Susceptible =
        RatSub(RatSub(Row(t - 1).Susceptible, NewInfectedOn(t)),
               MigrationOf(Row(t - 1).Susceptible))

\* I[t] = I[t-1] + new_infected - new_recovered + migration_rate * S[u]
InfectedRecurrence(t, u) ==
    Row(t).Infected =
        RatAdd(RatSub(RatAdd(Row(t - 1).Infected, NewInfectedOn(t)), NewRecoveredOn(t)),
               MigrationOf(Row(u).Susceptible))

\* C12 as stated: the migration term added to Infected on day t uses Susceptible from
\* two steps back, S[t-2] for t >= 2 and S[0] for t = 1, while the term removed from
\* Susceptible on day t is migration_rate * S[t-1].
C12_InflowFromTwoStepsBack ==
    Returned(simulation) =>
        \A t \in 1..(Len(simulation.frame) - 1) :
            /\ InfectedRecurrence(t, IF t >= 2 THEN t - 2 ELSE 0)
            /\ SusceptibleRecurrence(t)

\* C12 amended: the migration term added to Infected on day t is migration_rate *
\* S[t-1] for every t >= 1, the same amount that is removed from Susceptible on day t.
C12_InflowFromPreviousDay ==
    Returned(simulation) =>
        \A t \in 1..(Len(simulation.frame) - 1) :
            /\ InfectedRecurrence(t, t - 1)
            /\ SusceptibleRecurrence(t)

\* a run of three or more days with migration in which S[0] and S[1] differ, so that
\* the two readings of the lag give different values of Infected on day 2
C12_Witness ==
    /\ Returned(simulation) /\ days >= 3 /\ Len(simulation.frame) = days
    /\ env_factors.migration_rate > 0
    /\ Row(1).Susceptible # Row(0).Susceptible
    /\ InfectedRecurrence(2, 1)
    /\ ~InfectedRecurrence(2, 0)

\* C14: in exact arithmetic, Susceptible[t] + Infected[t] + Recovered[t] = population
\* on every day t of the result of generate_simulation.
C14_MassConserved ==
    Returned(simulation) =>
        \A i \in 1..Len(simulation.frame) :
            RatAdd(RatAdd(simulation.frame[i].Susceptible, simulation.frame[i].Infected),
                   simulation.frame[i].Recovered) = FromInt(params.population)

\* three or more days with infection, recovery and migration all moving mass, for
\* valid parameters, and the three compartments still sum to population on the last day
C14_Witness ==
    /\ Returned(simulation) /\ InClaimedRanges /\ days >= 3
    /\ Len(simulation.frame) = days
    /\ env_factors.migration_rate > 0 /\ params.gamma > 0 /\ params.beta > 0
    /\ Row(days - 1).Recovered # FromInt(0)
    /\ Row(days - 1).Susceptible # Row(0).Susceptible
    /\ RatAdd(RatAdd(Row(days - 1).Susceptible, Row(days - 1).Infected),
              Row(days - 1).Recovered) = FromInt(params.population)

====
